---- MODULE Spec2Model ----
(***************************************************************************)
(* backup.py: one forward pass over the configured sources.  The runner    *)
(* builds one task per recognised source type; a task walks its instances, *)
(* an instance its items, an item its stages (extract, compress, encrypt,  *)
(* upload).  External tools (mysql, mysqldump, tar, gzip, bzip2, gpg, the  *)
(* S3 client) are modelled by their outcome: exit 0, a non-zero exit, or   *)
(* the executable not being launchable (an OSError out of subprocess.run). *)
(***************************************************************************)
EXTENDS Integers, Sequences, FiniteSets, TLC

\* ---------------------------------------------------------------- bounds
MaxTypes == 2         \* source-type keys in the configuration
MaxInst  == 2         \* instances in the configuration, all source types together
MaxDbs   == 2         \* databases of one instance (listed or configured)
MaxTick  == 0         \* minutes the wall clock may advance during the run
MaxItems == 2         \* items whose extraction the run is followed through

\* ------------------------------------------------------------ value sets
NoValue == "None"     \* an absent option: cfg.get(k) returns None
Unread  == "Unread"   \* an option of the current instance not read yet

SourceTypes     == {"mysqldump", "directories", "postgres"}
TempValues      == {NoValue, "/backup"}
DbNames         == {"app", "crm"}
ListedNames     == {"app", "mysql", ""}
CompressValues  == {NoValue, "gzip", "xz"}
EncryptionKeys  == {NoValue, "ops", "legacy", "norcpt", "ghost"}
DestinationKeys == {NoValue, "offsite", "ftp", "ghost"}
CleanupValues   == {NoValue, "False"}
PathValues      == {"/srv/data", "/home/data", "/nope"}
FlagValues      == {NoValue, "True"}
SnapshotValues  == {NoValue, "/var/snap/data.snar"}

\* the directories that exist on the machine ("." is the working directory)
ExistingDirs == {".", "/srv/data", "/home/data", "/var/snap"}

\* how an external tool invocation ends
ToolOutcomes   == {"ok", "nonzero", "nolaunch"}
ClientOutcomes == {"ok", "error"}

\* config["encryptions"] and config["destinations"]: "ghost" is in neither
encryptions ==
  [k \in {"ops", "legacy", "norcpt"} |->
     CASE k = "ops"    -> [method |-> "gpg",   recipient |-> "ops@example.org"]
       [] k = "legacy" -> [method |-> "rot13", recipient |-> "ops@example.org"]
       [] k = "norcpt" -> [method |-> "gpg",   recipient |-> NoValue]]

destinations ==
  [k \in {"offsite", "ftp"} |->
     CASE k = "offsite" -> [method |-> "s3",  S3_BUCKET |-> "bk"]
       [] k = "ftp"     -> [method |-> "ftp", S3_BUCKET |-> "bk"]]

\* Python truth of an option value: None, False and "" are false
Truthy(v) == v # NoValue /\ v # "False" /\ v # ""

\* cfg.get(key, default)
GetOr(v, default) == IF v = NoValue THEN default ELSE v

\* a list-valued option: absent, or a list
Absent  == [some |-> FALSE, v |-> <<>>]
Some(l) == [some |-> TRUE, v |-> l]
\* `option or default` for a list: None and [] are false
ListOr(o, default) == IF o.some /\ o.v # <<>> THEN o.v ELSE default

\* the sequences over S of length at most n
SeqsUpTo(S, n) == UNION {[1..k -> S] : k \in 0..n}

Range(s) == {s[i] : i \in 1..Len(s)}

\* ----------------------------------------------------------------- paths
\* A file path is <<directory, base, timestamp, suffixes>>, standing for
\* directory/base_timestamp.s1.s2...
NoPath == <<>>

MkPath(dir, base, ts, exts) == <<dir, base, ts, exts>>

\* Path(value): Path("") is the path ".", whose str() is "."
PathOf(v) == IF v = "" THEN "." ELSE v

\* str(path): a directory path is kept as the string str() gives for it,
\* which is never empty
PathStr(p) == p

\* Path.name of a directory path: the last component, "" for "."
DirBaseName(p) ==
  CASE p = "."          -> ""
    [] p = "/srv/data"  -> "data"
    [] p = "/home/data" -> "data"
    [] OTHER            -> p

\* Path.parent of the snapshot file
SnapshotParent(p) == "/var/snap"

\* file_path.with_suffix(file_path.suffix + ".x"): one more suffix
AddSuffix(p, s) == MkPath(p[1], p[2], p[3], Append(p[4], s))

\* a log line, and the lines of a call attributed to instance n and item i
\* (0: none)
Line(lvl, msg) == [lvl |-> lvl, msg |-> msg]
About(lines, n, i) ==
  [k \in 1..Len(lines) |->
     [lvl |-> lines[k].lvl, msg |-> lines[k].msg, inst |-> n, item |-> i]]

\* ---------------------------------------------------------------- stages
\* What a stage call returns: its return value, the files afterwards, the
\* lines it logged, and whether an exception left it uncaught.
Returned(value, files, lines) ==
  [value |-> value, fs |-> files, lines |-> lines, raised |-> FALSE]
Raised(files, lines) ==
  [value |-> NoPath, fs |-> files, lines |-> lines, raised |-> TRUE]

\* Compressor.compress: gzip and bzip2 replace the file by the compressed
\* one; only CalledProcessError (a non-zero exit) is caught.
compress(files, file_path, method, tool) ==
  LET run(ext) ==
        CASE tool = "ok" ->
               Returned(AddSuffix(file_path, ext),
                        (files \ {file_path}) \cup {AddSuffix(file_path, ext)},
                        <<Line("OK", "COMPRESSED")>>)
          [] tool = "nonzero" ->
               Returned(NoPath, files, <<Line("ERROR", "compressing file")>>)
          [] OTHER -> Raised(files, <<>>)
  IN  CASE method = "gzip"  -> run("gz")
        [] method = "bzip2" -> run("bz2")
        [] OTHER -> Returned(NoPath, files, <<Line("ERROR", "not supported")>>)

\* an Encryptor whose gpg call consumes its input (gpg followed by unlink)
encryptConsuming(files, file_path, encryption, tool) ==
  IF encryption.method = "gpg"
  THEN CASE encryption.recipient = NoValue -> Raised(files, <<>>)
         [] tool = "ok" ->
              Returned(AddSuffix(file_path, "gpg"),
                       (files \ {file_path}) \cup {AddSuffix(file_path, "gpg")},
                       <<Line("OK", "ENCRYPTED")>>)
         [] tool = "nonzero" ->
              Returned(NoPath, files, <<Line("ERROR", "encrypting file")>>)
         [] OTHER -> Raised(files, <<>>)
  ELSE Returned(NoPath, files, <<Line("ERROR", "not supported")>>)

\* an Encryptor that hands back its input when it does not know the method
encryptPassThrough(files, file_path, encryption, tool) ==
  IF encryption.method = "gpg"
  THEN CASE encryption.recipient = NoValue -> Raised(files, <<>>)
         [] tool = "ok" ->
              Returned(AddSuffix(file_path, "gpg"),
                       files \cup {AddSuffix(file_path, "gpg")},
                       <<Line("OK", "ENCRYPTED")>>)
         [] tool = "nonzero" ->
              Returned(NoPath, files, <<Line("ERROR", "encrypting file")>>)
         [] OTHER -> Raised(files, <<>>)
  ELSE Returned(file_path, files, <<Line("ERROR", "not supported")>>)

\* Encryptor.encrypt: gpg writes file.gpg beside the input and leaves the
\* input; encryption["recipient"] raises KeyError when the profile has none.
encrypt(files, file_path, encryption, tool) ==
  IF encryption.method = "gpg"
  THEN CASE encryption.recipient = NoValue -> Raised(files, <<>>)
         [] tool = "ok" ->
              Returned(AddSuffix(file_path, "gpg"),
                       files \cup {AddSuffix(file_path, "gpg")},
                       <<Line("OK", "ENCRYPTED")>>)
         [] tool = "nonzero" ->
              Returned(NoPath, files, <<Line("ERROR", "encrypting file")>>)
         [] OTHER -> Raised(files, <<>>)
  ELSE Returned(NoPath, files, <<Line("ERROR", "not supported")>>)

\* Uploader.upload: True when the S3 client stored the file; every
\* exception is caught and gives False.
upload(files, file_path, destination, client) ==
  IF destination.method = "s3"
  THEN IF client = "ok"
       THEN Returned("True", files, <<Line("OK", "UPLOADED")>>)
       ELSE Returned("False", files, <<Line("ERROR", "uploading")>>)
  ELSE Returned("False", files, <<Line("ERROR", "Not supported")>>)

\* ----------------------------------------------------------------- state
VARIABLES
  sources,          \* config["sources"]: the source-type blocks, in file order
  tasks,            \* BackupRunner.run: the tasks build_tasks returned
  pc,               \* where the run is
  ti, di,           \* loop positions: the task, the database of the instance
  ni,               \* instances visited so far, all tasks together
  cfg,              \* options of the current instance read more than once
  temp_dir, databases, compress_method, timestamp,    \* locals of run()
  dump_file, archive_path, encrypted_file,            \* locals of run()
  clock,            \* the wall clock, in minutes
  fs,               \* the files that exist
  dirs,             \* the directories the run created
  store,            \* the files the S3 client stored
  log,              \* the lines logged
  environ,          \* os.environ: its MYSQL_PWD entry
  secrets,          \* per mysqldump instance: the options _mysql_env and run() read
  epc, ei, ej,      \* the walk over the mysql invocations: position, instance, database
  calls,            \* the mysql and mysqldump invocations: the env each was given
  insts,            \* per instance visited so far: what it resolved to
  items             \* per item extracted so far: what was done to it

vars == <<sources, tasks, pc, ti, ni, di, cfg, temp_dir, databases,
          compress_method, timestamp, dump_file, archive_path, encrypted_file,
          clock, fs, dirs, store, log, insts, items>>

\* the environment of the mysql invocations is followed on its own, in
\* EnvSpec: the run above leaves these as they are
envvars == <<environ, secrets, epc, ei, ej, calls>>

locals == <<cfg, temp_dir, databases, compress_method, timestamp, dump_file,
            archive_path, encrypted_file, di>>

UnreadCfg == [encryption |-> Unread, destination |-> Unread, cleanup |-> Unread]

\* the values an option of the current instance can have: any, until read
Known(option, values) == IF cfg[option] = Unread THEN values ELSE {cfg[option]}

\* config["sources"]: distinct source-type keys in any order.  How many
\* instances a block holds shows when the task's loop over them ends.
SourceConfigs ==
  {s \in SeqsUpTo(SourceTypes, MaxTypes) :
     \A i, j \in 1..Len(s) : i # j => s[i] # s[j]}

\* no mysql invocation followed
EnvIdle ==
  /\ environ = NoValue
  /\ secrets = <<>>
  /\ epc = "instances" /\ ei = 0 /\ ej = 0
  /\ calls = <<>>

\* the run before its first step
RunIdle ==
  /\ tasks = <<>>
  /\ pc = "build"
  /\ ti = 0 /\ ni = 0 /\ di = 0
  /\ cfg = UnreadCfg
  /\ temp_dir = NoValue /\ databases = <<>> /\ compress_method = NoValue
  /\ timestamp = 0
  /\ dump_file = NoPath /\ archive_path = NoPath /\ encrypted_file = NoPath
  /\ clock = -1
  /\ fs = {} /\ dirs = {} /\ store = {}
  /\ log = <<>>
  /\ insts = <<>>
  /\ items = <<>>

Init ==
  /\ sources \in SourceConfigs
  /\ EnvIdle
  /\ RunIdle

\* the locals of a loop body are dead once the iteration ends
ResetLocals ==
  /\ cfg' = UnreadCfg
  /\ temp_dir' = NoValue /\ databases' = <<>> /\ compress_method' = NoValue
  /\ timestamp' = 0
  /\ dump_file' = NoPath /\ archive_path' = NoPath /\ encrypted_file' = NoPath
  /\ di' = 0

\* ---------------------------------------------------------------- runner
\* BackupRunner.build_tasks: one task per recognised key, in order; an
\* unrecognised key is logged and gives no task.
RECURSIVE build_tasks(_)
build_tasks(blocks) ==
  IF blocks = <<>> THEN [tasks |-> <<>>, lines |-> <<>>]
  ELSE LET rest == build_tasks(Tail(blocks))
           b == Head(blocks)
       IN  CASE b = "mysqldump" ->
                  [tasks |-> <<"MySQLDumpTask">> \o rest.tasks, lines |-> rest.lines]
             [] b = "directories" ->
                  [tasks |-> <<"DirectoryBackupTask">> \o rest.tasks, lines |-> rest.lines]
             [] OTHER ->
                  [tasks |-> rest.tasks,
                   lines |-> <<Line("ERROR", "source not supported yet")>> \o rest.lines]

\* BackupRunner.run, first line: tasks = self.build_tasks()
BuildTasks ==
  /\ pc = "build"
  /\ tasks' = build_tasks(sources).tasks
  /\ log' = log \o About(build_tasks(sources).lines, 0, 0)
  /\ pc' = "tasks"
  /\ UNCHANGED <<envvars, sources, ti, ni, locals, clock, fs, dirs, store, insts, items>>

\* BackupRunner.run: for task in tasks: task.run()
RunTask ==
  /\ pc = "tasks"
  /\ ti < Len(tasks)
  /\ ti' = ti + 1
  /\ pc' = "instances"
  /\ UNCHANGED <<envvars, sources, tasks, ni, locals, clock, fs, dirs, store, log, insts, items>>

\* task.run() returns: the loop over the block's instances is exhausted
TaskReturn ==
  /\ pc = "instances"
  /\ pc' = "tasks"
  /\ UNCHANGED <<envvars, sources, tasks, ti, ni, locals, clock, fs, dirs, store, log, insts, items>>

\* BackupRunner.run returns: the loop over tasks is exhausted
RunReturn ==
  /\ pc = "tasks"
  /\ ti = Len(tasks)
  /\ pc' = "done"
  /\ UNCHANGED <<envvars, sources, tasks, ti, ni, locals, clock, fs, dirs, store, log, insts, items>>

\* ------------------------------------------------------------ item record
\* The record kept of an item from the moment its extraction starts.
NewItem(kind, n, base, path, result) ==
  [kind |-> kind, task |-> ti, inst |-> n, base |-> base,
   compress |-> Unread, encryption |-> Unread, destination |-> Unread,
   cleanup |-> Unread,
   trace |-> <<<<"extract", result>>>>,
   touched |-> {path},
   final |-> path,
   status |-> IF result = "ok" THEN "Extracted" ELSE "Failed"]

cur == Len(items)

\* The record kept of an instance once the head of the loop has seen it:
\* its temp option, the names of the items it resolved to, and the
\* incremental options as far as _tar_cmd read them.
NewInstance(kind, temp, names, raised) ==
  [kind |-> kind, task |-> ti, temp |-> temp, names |-> names, raised |-> raised,
   incremental |-> Unread, snapshot |-> Unread]

\* a loop over instances that ends the run at the first `continue`
NextInstanceAbort ==
  /\ pc' = "crashed"
  /\ ResetLocals

\* `continue` in the loop over instances
NextInstance ==
  /\ pc' = "instances"
  /\ ResetLocals

\* datetime.now(), in minutes counted from the first reading (clock is -1
\* before it): the wall clock never runs backwards
Now == IF clock < 0 THEN {0} ELSE clock..MaxTick

\* ------------------------------------------------------------- mysqldump
system_databases == <<"mysql", "information_schema", "performance_schema", "sys">>

\* the lines of the lister's output that are kept: not empty, not excluded
RECURSIVE KeepNames(_, _)
KeepNames(lines, exclude_set) ==
  IF lines = <<>> THEN <<>>
  ELSE IF Head(lines) = "" \/ Head(lines) \in exclude_set
       THEN KeepNames(Tail(lines), exclude_set)
       ELSE <<Head(lines)>> \o KeepNames(Tail(lines), exclude_set)

\* MySQLDumpTask._list_databases: [] on a non-zero exit
list_databases(listing, exclude) ==
  CASE listing.rc = "nolaunch" -> Raised({}, <<>>)
    [] listing.rc = "nonzero" ->
         Returned(<<>>, {}, <<Line("ERROR", "listing databases")>>)
    [] OTHER -> Returned(KeepNames(listing.stdout, Range(exclude)), {}, <<>>)

\* what the lister can answer: a server lists no database twice
Listings ==
  {[rc |-> "nonzero", stdout |-> <<>>], [rc |-> "nolaunch", stdout |-> <<>>]}
  \cup {[rc |-> "ok", stdout |-> l] :
          l \in {q \in SeqsUpTo(ListedNames, MaxDbs) :
                   \A i, j \in 1..Len(q) : i # j /\ q[i] # "" => q[i] # q[j]}}

\* the lists of database names an instance can configure, up to renaming
DatabaseLists ==
  {l \in SeqsUpTo(DbNames, MaxDbs) :
     /\ l # <<>>
     /\ \A i \in 1..Len(l) : l[i] = "crm" => \E j \in 1..(i - 1) : l[j] = "app"}

\* the options that say which databases an instance dumps
DatabaseOptions ==
  {[all |-> NoValue, databases |-> d, exclude |-> Absent] :
     d \in {Absent} \cup {Some(l) : l \in DatabaseLists}}
  \cup {[all |-> "True", databases |-> Absent, exclude |-> e] :
          e \in {Absent, Some(<<>>), Some(<<"app">>)}}

\* MySQLDumpTask.run, the head of the loop over instances: the temp
\* directory, the databases to dump, the compress method and the timestamp.
MySQLInstance ==
  /\ pc = "instances"
  /\ tasks[ti] = "MySQLDumpTask"
  /\ ni < MaxInst
  /\ ni' = ni + 1
  /\ \E temp \in TempValues, opt \in DatabaseOptions, listing \in Listings,
        method \in CompressValues, now \in Now :
       LET dir == PathOf(GetOr(temp, ""))
           listed == list_databases(listing,
                                    ListOr(opt.exclude, system_databases))
           dbs == IF Truthy(opt.all) THEN listed.value
                  ELSE ListOr(opt.databases, <<>>)
       IN  IF PathStr(dir) = ""
           THEN /\ log' = log \o About(<<Line("ERROR", "missing temp path")>>, ni + 1, 0)
                /\ insts' = Append(insts, NewInstance("mysqldump", temp, <<>>, FALSE))
                /\ NextInstance
                /\ UNCHANGED <<clock, dirs>>
           ELSE IF Truthy(opt.all) /\ listed.raised
           THEN /\ dirs' = dirs \cup ({dir} \ ExistingDirs)
                /\ insts' = Append(insts, NewInstance("mysqldump", temp, <<>>, TRUE))
                /\ pc' = "crashed"
                /\ UNCHANGED <<locals, clock, log>>
           ELSE IF dbs = <<>>
           THEN /\ dirs' = dirs \cup ({dir} \ ExistingDirs)
                /\ insts' = Append(insts, NewInstance("mysqldump", temp, <<>>, FALSE))
                /\ log' = log \o
                     (IF Truthy(opt.all)
                      THEN About(listed.lines
                                 \o <<Line("ERROR", "no databases found")>>,
                                 ni + 1, 0)
                      ELSE About(<<Line("ERROR", "no databases listed")>>, ni + 1, 0))
                /\ NextInstance
                /\ UNCHANGED clock
           ELSE /\ dirs' = dirs \cup ({dir} \ ExistingDirs)
                /\ insts' = Append(insts, NewInstance("mysqldump", temp, dbs, FALSE))
                /\ temp_dir' = dir
                /\ databases' = dbs
                /\ compress_method' = method
                /\ clock' = now
                /\ timestamp' = now
                /\ di' = 1
                /\ pc' = "dump"
                /\ UNCHANGED <<cfg, dump_file, archive_path, encrypted_file, log>>
  /\ UNCHANGED <<envvars, sources, tasks, ti, fs, store, items>>

\* a loop over databases with `break` where the code has `continue`
NextDatabaseBreak(c) ==
  /\ pc' = "instances"
  /\ ResetLocals

\* where the loop over databases goes next (`continue`, or the end of the
\* body); c holds the options read so far
NextDatabase(c) ==
  IF di < Len(databases)
  THEN /\ di' = di + 1
       /\ pc' = "dump"
       /\ cfg' = c
       /\ dump_file' = NoPath
       /\ encrypted_file' = NoPath
       /\ UNCHANGED <<temp_dir, databases, compress_method, timestamp, archive_path>>
  ELSE /\ pc' = "instances"
       /\ ResetLocals

\* the body goes on at p with dump_file and encrypted_file as given
Goto(p, c, file, encrypted) ==
  /\ pc' = p
  /\ cfg' = c
  /\ dump_file' = file
  /\ encrypted_file' = encrypted
  /\ UNCHANGED <<temp_dir, databases, compress_method, timestamp, di, archive_path>>

\* MySQLDumpTask.run: the dump of one database into its file.  An exception
\* out of subprocess.run is not caught: it ends the run.
MySQLDump ==
  /\ pc = "dump"
  /\ cur < MaxItems
  /\ \E tool \in ToolOutcomes :
       LET db == databases[di]
           file == MkPath(temp_dir, db, timestamp, <<"sql">>)
           item(result) == [NewItem("mysqldump", ni, db, file, result)
                              EXCEPT !.compress = compress_method]
       IN  /\ fs' = fs \cup {file}
           /\ IF tool = "nolaunch"
              THEN /\ items' = Append(items, item("raised"))
                   /\ log' = log
                   /\ Goto("crashed", cfg, file, NoPath)
              ELSE IF tool = "nonzero"
              THEN /\ items' = Append(items, item("fail"))
                   /\ log' = log \o About(<<Line("ERROR", "dumping")>>, ni, cur + 1)
                   /\ NextDatabase(cfg)
              ELSE /\ items' = Append(items, item("ok"))
                   /\ log' = log \o About(<<Line("OK", "DUMPED")>>, ni, cur + 1)
                   /\ Goto("compress", cfg, file, NoPath)
  /\ UNCHANGED <<envvars, sources, tasks, ti, ni, insts, clock, dirs, store>>

\* MySQLDumpTask.run: the compress stage of the item
MySQLCompress ==
  /\ pc = "compress"
  /\ \E tool \in ToolOutcomes :
       LET r == compress(fs, dump_file, compress_method, tool)
       IN  IF ~Truthy(compress_method)
           THEN /\ Goto("encrypt", cfg, dump_file, NoPath)
                /\ UNCHANGED <<fs, log, items>>
           ELSE /\ fs' = r.fs
                /\ log' = log \o About(r.lines, ni, cur)
                /\ IF r.raised
                   THEN /\ items' = [items EXCEPT
                              ![cur].trace = Append(@, <<"compress", "raised">>)]
                        /\ Goto("crashed", cfg, dump_file, NoPath)
                   ELSE IF r.value = NoPath
                   THEN /\ items' = [items EXCEPT
                              ![cur].trace = Append(@, <<"compress", "fail">>),
                              ![cur].status = "Failed"]
                        /\ NextDatabase(cfg)
                   ELSE /\ items' = [items EXCEPT
                              ![cur].trace = Append(@, <<"compress", "ok">>),
                              ![cur].touched = @ \cup {r.value},
                              ![cur].final = r.value,
                              ![cur].status = "Compressed"]
                        /\ Goto("encrypt", cfg, r.value, NoPath)
  /\ UNCHANGED <<envvars, sources, tasks, ti, ni, insts, clock, dirs, store>>

\* MySQLDumpTask.run: the encrypt stage of the item, up to the return of
\* Encryptor.encrypt
MySQLEncrypt ==
  /\ pc = "encrypt"
  /\ \E key \in Known("encryption", EncryptionKeys), tool \in ToolOutcomes :
       LET c == [cfg EXCEPT !.encryption = key]
       IN  IF ~Truthy(key)
           THEN /\ items' = [items EXCEPT ![cur].encryption = key]
                /\ Goto("upload", c, dump_file, NoPath)
                /\ UNCHANGED <<fs, log>>
           ELSE IF key \notin DOMAIN encryptions
           THEN /\ log' = log \o About(<<Line("ERROR", "encryption not found")>>, ni, cur)
                /\ items' = [items EXCEPT ![cur].encryption = key,
                                          ![cur].status = "Failed"]
                /\ fs' = fs
                /\ NextDatabase(c)
           ELSE LET r == encrypt(fs, dump_file, encryptions[key], tool)
                IN  /\ fs' = r.fs
                    /\ log' = log \o About(r.lines, ni, cur)
                    /\ IF r.raised
                       THEN /\ items' = [items EXCEPT
                                  ![cur].encryption = key,
                                  ![cur].trace = Append(@, <<"encrypt", "raised">>)]
                            /\ Goto("crashed", c, dump_file, NoPath)
                       ELSE IF r.value = NoPath
                       THEN /\ items' = [items EXCEPT
                                  ![cur].encryption = key,
                                  ![cur].trace = Append(@, <<"encrypt", "fail">>),
                                  ![cur].status = "Failed"]
                            /\ NextDatabase(c)
                       ELSE /\ items' = [items EXCEPT
                                  ![cur].encryption = key,
                                  ![cur].trace = Append(@, <<"encrypt", "ok">>),
                                  ![cur].touched = @ \cup {r.value}]
                            /\ Goto("transfer", c, dump_file, r.value)
  /\ UNCHANGED <<envvars, sources, tasks, ti, ni, insts, clock, dirs, store>>

\* MySQLDumpTask.run: after a successful encrypt the pipeline removes the
\* file that was encrypted and goes on with the encrypted one
MySQLTransfer ==
  /\ pc = "transfer"
  /\ fs' = IF dump_file \in fs THEN fs \ {dump_file} ELSE fs
  /\ items' = [items EXCEPT ![cur].final = encrypted_file,
                            ![cur].status = "Encrypted"]
  /\ Goto("upload", cfg, encrypted_file, encrypted_file)
  /\ UNCHANGED <<envvars, sources, tasks, ti, ni, insts, clock, dirs, store, log>>

\* MySQLDumpTask.run: the upload stage of the item and its cleanup
MySQLUpload ==
  /\ pc = "upload"
  /\ \E key \in Known("destination", DestinationKeys), client \in ClientOutcomes :
       IF ~Truthy(key)
       THEN /\ log' = log \o About(<<Line("INFO", "no destination configured")>>, ni, cur)
            /\ items' = [items EXCEPT ![cur].destination = key,
                                      ![cur].status = "Skipped"]
            /\ NextDatabase([cfg EXCEPT !.destination = key])
            /\ UNCHANGED <<fs, store>>
       ELSE IF key \notin DOMAIN destinations
       THEN /\ log' = log \o About(<<Line("ERROR", "destination not found")>>, ni, cur)
            /\ items' = [items EXCEPT ![cur].destination = key,
                                      ![cur].status = "Failed"]
            /\ NextDatabase([cfg EXCEPT !.destination = key])
            /\ UNCHANGED <<fs, store>>
       ELSE LET r == upload(fs, dump_file, destinations[key], client)
            IN  /\ log' = log \o About(r.lines, ni, cur)
                /\ IF r.value = "True"
                   THEN \E cleanup \in Known("cleanup", CleanupValues) :
                          /\ store' = store \cup {dump_file}
                          /\ fs' = IF Truthy(GetOr(cleanup, "True"))
                                   THEN r.fs \ {dump_file} ELSE r.fs
                          /\ items' = [items EXCEPT
                                 ![cur].destination = key,
                                 ![cur].cleanup = cleanup,
                                 ![cur].trace = Append(@, <<"upload", "ok">>),
                                 ![cur].touched =
                                    IF Truthy(GetOr(cleanup, "True"))
                                    THEN @ \cup {dump_file} ELSE @,
                                 ![cur].status = "Uploaded"]
                          /\ NextDatabase([cfg EXCEPT !.destination = key,
                                                      !.cleanup = cleanup])
                   ELSE /\ fs' = r.fs
                        /\ store' = store
                        /\ items' = [items EXCEPT
                               ![cur].destination = key,
                               ![cur].trace = Append(@, <<"upload", "fail">>),
                               ![cur].status = "Failed"]
                        /\ NextDatabase([cfg EXCEPT !.destination = key])
  /\ UNCHANGED <<envvars, sources, tasks, ti, ni, insts, clock, dirs>>

\* ----------------------------------------- environment of mysql invocations
PasswordValues == {NoValue, "", "pw1", "pw2"}
AmbientValues  == {NoValue, "ambient"}

\* the options of a mysqldump instance that decide which tools are invoked,
\* with which environment and for which databases
SecretOptions ==
  {[password |-> p, opt |-> o] : p \in PasswordValues, o \in DatabaseOptions}

\* what the lister can answer when the server also holds the database crm
EnvListings ==
  {[rc |-> "nonzero", stdout |-> <<>>], [rc |-> "nolaunch", stdout |-> <<>>]}
  \cup {[rc |-> "ok", stdout |-> l] :
          l \in {q \in SeqsUpTo(ListedNames \cup {"crm"}, MaxDbs) :
                   \A i, j \in 1..Len(q) : i # j /\ q[i] # "" => q[i] # q[j]}}

\* a _mysql_env that sets MYSQL_PWD in os.environ itself (no copy)
mysql_envShared(global_env, password) ==
  [env     |-> IF Truthy(password) THEN password ELSE global_env,
   environ |-> IF Truthy(password) THEN password ELSE global_env]

\* MySQLDumpTask._mysql_env: MYSQL_PWD in the copy of os.environ that is
\* returned, and in os.environ itself afterwards
mysql_env(global_env, password) ==
  [env     |-> IF Truthy(password) THEN password ELSE global_env,
   environ |-> global_env]

\* a tool invocation: the MYSQL_PWD of the environment it is given, the
\* database it is for (mysqldump), what it answered (mysql)
NoListing == [rc |-> "ok", stdout |-> <<>>]
Call(n, tool, env, db, listing) ==
  [inst |-> n, tool |-> tool, env |-> env, db |-> db, listing |-> listing]

\* the answer the lister gave for instance n
ListingOf(n) ==
  LET k == CHOOSE c \in 1..Len(calls) : calls[c].inst = n /\ calls[c].tool = "mysql"
  IN  calls[k].listing

\* MySQLDumpTask.run: the databases instance n dumps
DatabasesOf(n) ==
  IF Truthy(secrets[n].opt.all)
  THEN list_databases(ListingOf(n),
                      ListOr(secrets[n].opt.exclude, system_databases)).value
  ELSE ListOr(secrets[n].opt.databases, <<>>)

EnvInit ==
  /\ sources = <<"mysqldump">>
  /\ RunIdle
  /\ environ \in AmbientValues
  /\ secrets \in SeqsUpTo(SecretOptions, MaxInst)
  /\ epc = "instances" /\ ei = 0 /\ ej = 0
  /\ calls = <<>>

\* MySQLDumpTask.run, the head of the loop over instances: the lister is
\* invoked when all_databases_except_system is set; the instance then has
\* databases to dump or has none
EnvInstance ==
  /\ epc = "instances"
  /\ ei < Len(secrets)
  /\ ei' = ei + 1
  /\ ej' = 0
  /\ LET r == mysql_env(environ, secrets[ei + 1].password)
         opt == secrets[ei + 1].opt
     IN  IF Truthy(opt.all)
         THEN \E listing \in EnvListings :
                LET listed == list_databases(listing,
                                             ListOr(opt.exclude, system_databases))
                IN  /\ calls' = Append(calls, Call(ei + 1, "mysql", r.env, "", listing))
                    /\ environ' = r.environ
                    /\ epc' = IF listed.raised THEN "crashed"
                              ELSE IF listed.value = <<>> THEN "instances"
                              ELSE "dump"
         ELSE /\ epc' = IF ListOr(opt.databases, <<>>) = <<>>
                        THEN "instances" ELSE "dump"
              /\ UNCHANGED <<calls, environ>>
  /\ UNCHANGED <<vars, secrets>>

\* MySQLDumpTask.run: the dump of one database, with env=self._mysql_env(cfg);
\* a non-zero exit goes on with the next database, an exception out of
\* subprocess.run ends the run
EnvDump ==
  /\ epc = "dump"
  /\ LET r == mysql_env(environ, secrets[ei].password)
         db == DatabasesOf(ei)[ej + 1]
     IN  /\ calls' = Append(calls, Call(ei, "mysqldump", r.env, db, NoListing))
         /\ environ' = r.environ
  /\ ej' = ej + 1
  /\ \E tool \in ToolOutcomes :
       epc' = IF tool = "nolaunch" THEN "crashed"
              ELSE IF ej + 1 < Len(DatabasesOf(ei)) THEN "dump"
              ELSE "instances"
  /\ UNCHANGED <<vars, secrets, ei>>

\* MySQLDumpTask.run returns: the loop over instances is exhausted
EnvReturn ==
  /\ epc = "instances"
  /\ ei = Len(secrets)
  /\ epc' = "done"
  /\ UNCHANGED <<vars, environ, secrets, ei, ej, calls>>

EnvNext ==
  \/ EnvInstance
  \/ EnvDump
  \/ EnvReturn

EnvSpec == EnvInit /\ [][EnvNext]_<<vars, envvars>>

\* ----------------------------------------------------------- directories
\* DirectoryBackupTask._archive_name: the suffixes of the archive's name
archive_name(method) ==
  CASE method = "gzip"  -> <<"tar", "gz">>
    [] method = "bzip2" -> <<"tar", "bz2">>
    [] OTHER            -> <<"tar">>

\* a _tar_cmd that builds the command whether or not a snapshot path is set
tar_cmdLenient(incremental, snapshot, method) ==
  [cmd |-> "-cf", made |-> {}, lines |-> <<>>]

\* DirectoryBackupTask._tar_cmd: the tar flag (any other method gives a
\* plain archive), or None when incremental is set without a snapshot path,
\* and the directory it creates for the snapshot file
tar_cmd(incremental, snapshot, method) ==
  LET flag == CASE method = "gzip"  -> "-czf"
                [] method = "bzip2" -> "-cjf"
                [] OTHER            -> "-cf"
  IN  IF Truthy(incremental)
      THEN IF ~Truthy(snapshot)
           THEN [cmd |-> NoValue, made |-> {},
                 lines |-> <<Line("ERROR", "incremental requires incremental_snapshot")>>]
           ELSE [cmd |-> flag, made |-> {SnapshotParent(snapshot)}, lines |-> <<>>]
      ELSE [cmd |-> flag, made |-> {}, lines |-> <<>>]

\* the body goes on at p with archive_path and encrypted_file as given
DirGoto(p, c, file, encrypted) ==
  /\ pc' = p
  /\ cfg' = c
  /\ archive_path' = file
  /\ encrypted_file' = encrypted
  /\ UNCHANGED <<temp_dir, databases, compress_method, timestamp, di, dump_file>>

\* DirectoryBackupTask.run, from the head of the loop over instances to the
\* end of tar: the checks of the source path and the temp directory, the
\* archive's name, the command, the archive.
DirArchive ==
  /\ pc = "instances"
  /\ tasks[ti] = "DirectoryBackupTask"
  /\ ni < MaxInst
  /\ cur < MaxItems
  /\ ni' = ni + 1
  /\ \E path \in PathValues, temp \in TempValues, method \in CompressValues,
        incremental \in FlagValues, snapshot \in SnapshotValues,
        now \in Now, tool \in ToolOutcomes :
       LET source_dir == PathOf(GetOr(path, ""))
           dir == PathOf(GetOr(temp, ""))
           file == MkPath(dir, DirBaseName(source_dir), now, archive_name(method))
           cmd == tar_cmd(incremental, snapshot, method)
           names == <<DirBaseName(source_dir)>>
           read_snapshot == IF Truthy(incremental) THEN snapshot ELSE Unread
           item(result) == [NewItem("directories", ni + 1, names[1], file, result)
                              EXCEPT !.compress = method]
       IN  IF source_dir \notin ExistingDirs
           THEN /\ log' = log \o About(<<Line("ERROR", "invalid source path")>>, ni + 1, 0)
                /\ insts' = Append(insts, NewInstance("directories", temp, <<>>, FALSE))
                /\ NextInstance
                /\ UNCHANGED <<clock, fs, dirs, items>>
           ELSE IF PathStr(dir) = ""
           THEN /\ log' = log \o About(<<Line("ERROR", "missing temp path")>>, ni + 1, 0)
                /\ insts' = Append(insts, NewInstance("directories", temp, <<>>, FALSE))
                /\ NextInstance
                /\ UNCHANGED <<clock, fs, dirs, items>>
           ELSE IF cmd.cmd = NoValue
           THEN /\ dirs' = dirs \cup ({dir} \ ExistingDirs)
                /\ insts' = Append(insts, [NewInstance("directories", temp, <<>>, FALSE)
                                          EXCEPT !.incremental = incremental,
                                                 !.snapshot = read_snapshot])
                /\ clock' = now
                /\ log' = log \o About(cmd.lines, ni + 1, 0)
                /\ NextInstance
                /\ UNCHANGED <<fs, items>>
           ELSE /\ dirs' = dirs \cup (({dir} \cup cmd.made) \ ExistingDirs)
                /\ insts' = Append(insts, [NewInstance("directories", temp, names, FALSE)
                                          EXCEPT !.incremental = incremental,
                                                 !.snapshot = read_snapshot])
                /\ clock' = now
                /\ IF tool = "nolaunch"
                   THEN /\ items' = Append(items, item("raised"))
                        /\ pc' = "crashed"
                        /\ compress_method' = method
                        /\ temp_dir' = dir
                        /\ timestamp' = now
                        /\ archive_path' = file
                        /\ UNCHANGED <<cfg, databases, di, dump_file,
                                       encrypted_file, fs, log>>
                   ELSE IF tool = "nonzero"
                   THEN /\ items' = Append(items, item("fail"))
                        /\ log' = log \o About(<<Line("ERROR", "creating archive")>>,
                                                ni + 1, cur + 1)
                        /\ NextInstance
                        /\ fs' = fs
                   ELSE /\ items' = Append(items, item("ok"))
                        /\ log' = log \o About(<<Line("OK", "ARCHIVED")>>, ni + 1, cur + 1)
                        /\ fs' = fs \cup {file}
                        /\ pc' = "dir_encrypt"
                        /\ compress_method' = method
                        /\ temp_dir' = dir
                        /\ timestamp' = now
                        /\ archive_path' = file
                        /\ UNCHANGED <<cfg, databases, di, dump_file, encrypted_file>>
  /\ UNCHANGED <<envvars, sources, tasks, ti, store>>

\* DirectoryBackupTask.run: the encrypt stage of the archive, up to the
\* return of Encryptor.encrypt
DirEncrypt ==
  /\ pc = "dir_encrypt"
  /\ \E key \in EncryptionKeys, tool \in ToolOutcomes :
       LET c == [cfg EXCEPT !.encryption = key]
       IN  IF ~Truthy(key)
           THEN /\ items' = [items EXCEPT ![cur].encryption = key]
                /\ DirGoto("dir_upload", c, archive_path, NoPath)
                /\ UNCHANGED <<fs, log>>
           ELSE IF key \notin DOMAIN encryptions
           THEN /\ log' = log \o About(<<Line("ERROR", "encryption not found")>>, ni, cur)
                /\ items' = [items EXCEPT ![cur].encryption = key,
                                          ![cur].status = "Failed"]
                /\ fs' = fs
                /\ NextInstance
           ELSE LET r == encrypt(fs, archive_path, encryptions[key], tool)
                IN  /\ fs' = r.fs
                    /\ log' = log \o About(r.lines, ni, cur)
                    /\ IF r.raised
                       THEN /\ items' = [items EXCEPT
                                  ![cur].encryption = key,
                                  ![cur].trace = Append(@, <<"encrypt", "raised">>)]
                            /\ DirGoto("crashed", c, archive_path, NoPath)
                       ELSE IF r.value = NoPath
                       THEN /\ items' = [items EXCEPT
                                  ![cur].encryption = key,
                                  ![cur].trace = Append(@, <<"encrypt", "fail">>),
                                  ![cur].status = "Failed"]
                            /\ NextInstance
                       ELSE /\ items' = [items EXCEPT
                                  ![cur].encryption = key,
                                  ![cur].trace = Append(@, <<"encrypt", "ok">>),
                                  ![cur].touched = @ \cup {r.value}]
                            /\ DirGoto("dir_transfer", c, archive_path, r.value)
  /\ UNCHANGED <<envvars, sources, tasks, ti, ni, insts, clock, dirs, store>>

\* DirectoryBackupTask.run: after a successful encrypt the pipeline removes
\* the archive that was encrypted and goes on with the encrypted one
DirTransfer ==
  /\ pc = "dir_transfer"
  /\ fs' = IF archive_path \in fs THEN fs \ {archive_path} ELSE fs
  /\ items' = [items EXCEPT ![cur].final = encrypted_file,
                            ![cur].status = "Encrypted"]
  /\ DirGoto("dir_upload", cfg, encrypted_file, encrypted_file)
  /\ UNCHANGED <<envvars, sources, tasks, ti, ni, insts, clock, dirs, store, log>>

\* DirectoryBackupTask.run: the upload stage of the archive and its cleanup
DirUpload ==
  /\ pc = "dir_upload"
  /\ \E key \in DestinationKeys, client \in ClientOutcomes :
       IF ~Truthy(key)
       THEN /\ log' = log \o About(<<Line("INFO", "no destination configured")>>, ni, cur)
            /\ items' = [items EXCEPT ![cur].destination = key,
                                      ![cur].status = "Skipped"]
            /\ NextInstance
            /\ UNCHANGED <<fs, store>>
       ELSE IF key \notin DOMAIN destinations
       THEN /\ log' = log \o About(<<Line("ERROR", "destination not found")>>, ni, cur)
            /\ items' = [items EXCEPT ![cur].destination = key,
                                      ![cur].status = "Failed"]
            /\ NextInstance
            /\ UNCHANGED <<fs, store>>
       ELSE LET r == upload(fs, archive_path, destinations[key], client)
            IN  /\ log' = log \o About(r.lines, ni, cur)
                /\ IF r.value = "True"
                   THEN \E cleanup \in CleanupValues :
                          /\ store' = store \cup {archive_path}
                          /\ fs' = IF Truthy(GetOr(cleanup, "True"))
                                   THEN r.fs \ {archive_path} ELSE r.fs
                          /\ items' = [items EXCEPT
                                 ![cur].destination = key,
                                 ![cur].cleanup = cleanup,
                                 ![cur].trace = Append(@, <<"upload", "ok">>),
                                 ![cur].status = "Uploaded"]
                          /\ NextInstance
                   ELSE /\ fs' = r.fs
                        /\ store' = store
                        /\ items' = [items EXCEPT
                               ![cur].destination = key,
                               ![cur].trace = Append(@, <<"upload", "fail">>),
                               ![cur].status = "Failed"]
                        /\ NextInstance
  /\ UNCHANGED <<envvars, sources, tasks, ti, ni, insts, clock, dirs>>

\* --------------------------------------------------------- specification
Next ==
  \/ BuildTasks
  \/ RunTask
  \/ TaskReturn
  \/ RunReturn
  \/ MySQLInstance
  \/ MySQLDump
  \/ MySQLCompress
  \/ MySQLEncrypt
  \/ MySQLTransfer
  \/ MySQLUpload
  \/ DirArchive
  \/ DirEncrypt
  \/ DirTransfer
  \/ DirUpload

Spec == Init /\ [][Next]_vars

\* ------------------------------------------------------------ properties
\* the stage was invoked for the item, and how the invocation ended
Invoked(it, stage) == \E k \in 1..Len(it.trace) : it.trace[k][1] = stage
HasStep(it, stage, result) == \E k \in 1..Len(it.trace) : it.trace[k] = <<stage, result>>

\* the files of the item that exist
FilesOf(it) == it.touched \cap fs

\* a line of the given level was logged for item i
Logged(lvl, i) == \E k \in 1..Len(log) : log[k].lvl = lvl /\ log[k].item = i

\* the step is an extraction that exits non-zero
ExtractionExitsNonZero ==
  /\ Len(items') = Len(items) + 1
  /\ items'[Len(items')].trace = <<<<"extract", "fail">>>>

\* C1: when the extraction tool exits non-zero for an item, the run goes on
\* where it would have gone without that item: to the next database of the
\* instance with the instance's options unchanged, or else to the next
\* instance of the same task; the records of the other items, the list of
\* tasks, the uploaded files and every file but the item's own are as before.
NonZeroExtractionIsIsolated ==
  [][ExtractionExitsNonZero =>
       /\ \A i \in 1..Len(items) : items'[i] = items[i]
       /\ tasks' = tasks /\ ti' = ti /\ store' = store
       /\ fs' \ items'[Len(items')].touched = fs \ items'[Len(items')].touched
       /\ IF pc = "dump" /\ di < Len(databases)
          THEN /\ pc' = "dump" /\ di' = di + 1
               /\ <<temp_dir, databases, compress_method, timestamp, cfg>>'
                    = <<temp_dir, databases, compress_method, timestamp, cfg>>
          ELSE pc' = "instances"]_vars

\* C1 witness: the run ended normally, a dump exited non-zero, and a later
\* database of the same instance went through to its last stage
LaterItemCompletesAfterFailedDump ==
  /\ pc = "done"
  /\ \E i, j \in 1..Len(items) :
       /\ i < j
       /\ items[i].inst = items[j].inst
       /\ items[i].trace = <<<<"extract", "fail">>>>
       /\ items[j].status \in {"Uploaded", "Skipped"}

\* the order of the stages
StageRank(stage) ==
  CASE stage = "extract" -> 1 [] stage = "compress" -> 2
    [] stage = "encrypt" -> 3 [] stage = "upload" -> 4

\* the item has a compressed artifact
Compressed(it) == \E p \in it.touched : Range(p[4]) \cap {"gz", "bz2"} # {}

\* the option that configures the stage is set for the item
Configured(it, stage) ==
  CASE stage = "compress" -> Truthy(it.compress)
    [] stage = "encrypt"  -> it.encryption # Unread /\ Truthy(it.encryption)
    [] stage = "upload"   -> it.destination # Unread /\ Truthy(it.destination)
    [] OTHER              -> TRUE

\* every configured stage before the given one succeeded for the item
EarlierSucceeded(it, stage) ==
  /\ HasStep(it, "extract", "ok")
  /\ StageRank(stage) > 2 /\ Truthy(it.compress) => Compressed(it)
  /\ StageRank(stage) > 3 /\ Truthy(it.encryption) => HasStep(it, "encrypt", "ok")

\* C2: for every item the stages are invoked in the order extract, compress,
\* encrypt, upload, each at most once; a stage is invoked only if it is
\* configured and every earlier configured stage succeeded; only the last
\* stage invoked for an item can have failed.
StagesStrictlyForward ==
  \A i \in 1..Len(items) :
    LET it == items[i]
    IN  /\ \A k, l \in 1..Len(it.trace) :
             k < l => StageRank(it.trace[k][1]) < StageRank(it.trace[l][1])
        /\ \A k \in 1..Len(it.trace) :
             /\ Configured(it, it.trace[k][1])
             /\ k > 1 => EarlierSucceeded(it, it.trace[k][1])
             /\ k < Len(it.trace) => it.trace[k][2] = "ok"

\* C3: for every item whose upload was attempted, from the attempt to the
\* end of the run the local artifact is absent exactly when the upload
\* succeeded and the cleanup flag is not false.
UploadCleanupRule ==
  \A i \in 1..Len(items) :
    LET it == items[i]
    IN  Invoked(it, "upload") =>
          (it.final \notin fs <=>
             HasStep(it, "upload", "ok") /\ Truthy(GetOr(it.cleanup, "True")))

\* the step is an encrypt stage the item's options ask for
EncryptStep ==
  /\ pc \in {"encrypt", "dir_encrypt"}
  /\ Truthy(items'[cur].encryption)

\* C4: the encrypt stage removes no file; after a successful encrypt the
\* pipeline removes the file that was encrypted, so that the encrypted file
\* is the item's only file when the upload stage is reached; when encrypt
\* reports a failure or the profile key is not defined, the item is Failed,
\* the files are as before with the predecessor among them, and neither then
\* nor later is an upload attempted for the item.
EncryptOwnershipTransfer ==
  [][/\ EncryptStep => fs \subseteq fs'
     /\ pc \in {"transfer", "dir_transfer"} =>
          /\ pc' \in {"upload", "dir_upload"}
          /\ items'[cur].touched \cap fs' = {encrypted_file}
          /\ items'[cur].final = encrypted_file
          /\ "gpg" \in Range(encrypted_file[4])
     /\ EncryptStep /\ pc' \notin {"transfer", "dir_transfer", "crashed"} =>
          /\ items'[cur].status = "Failed"
          /\ fs' = fs
          /\ items'[cur].final = items[cur].final
          /\ items'[cur].final \in fs'
          /\ pc' \notin {"upload", "dir_upload"}
     /\ \A i \in 1..Len(items') :
          Invoked(items'[i], "upload") /\ Truthy(items'[i].encryption)
            => HasStep(items'[i], "encrypt", "ok")]_vars

\* C4 witness: an encrypted item at the upload stage: the predecessor is
\* gone and the encrypted file is there
PredecessorGoneAfterEncrypt ==
  /\ pc \in {"upload", "dir_upload"}
  /\ HasStep(items[cur], "encrypt", "ok")
  /\ FilesOf(items[cur]) = {items[cur].final}
  /\ Cardinality(items[cur].touched) > 1

\* C5: an item whose instance configures a compress method other than gzip
\* and bzip2 gets neither encrypt nor upload, and once its compress stage is
\* behind it, it is Failed with an error logged and its artifact on disk.
UnsupportedCompressFails ==
  \A i \in 1..Len(items) :
    LET it == items[i]
    IN  /\ Truthy(it.compress) /\ it.compress \notin {"gzip", "bzip2"}
        /\ HasStep(it, "extract", "ok")
        /\ ~(i = cur /\ pc = "compress")
        => /\ it.status = "Failed"
           /\ Logged("ERROR", i)
           /\ ~Invoked(it, "encrypt") /\ ~Invoked(it, "upload")

\* C6: no stage call leaves an exception uncaught: the run is never ended by
\* one, and every stage invocation of every item ended in success or in a
\* failure of that item.
NoErrorPastItemBoundary ==
  /\ pc # "crashed"
  /\ \A i \in 1..Len(items) : \A k \in 1..Len(items[i].trace) :
       items[i].trace[k][2] \in {"ok", "fail"}

\* C7: the files two distinct items create, replace or delete are disjoint.
ArtifactsNeverShared ==
  \A i, j \in 1..Len(items) : i # j => items[i].touched \cap items[j].touched = {}

RetentionWithoutDestination ==
  \A i \in 1..Len(items) :
    LET it == items[i]
    IN  it.destination = NoValue =>
          /\ ~Invoked(it, "upload")
          /\ \E k \in 1..Len(log) :
               log[k].item = i /\ log[k].msg = "no destination configured"
          /\ pc = "done" => FilesOf(it) = {it.final}

\* the tasks the configuration asks for
Recognised(key) == key \in {"mysqldump", "directories"}
TaskFor(key) == IF key = "mysqldump" THEN "MySQLDumpTask" ELSE "DirectoryBackupTask"

\* C10: one task is built per recognised key, in configuration order; each
\* other key gives one logged error and no task; and when the run has
\* ended, every task built has been run to completion.
RunnerRunsEveryBuiltTask ==
  pc # "build" =>
    /\ LET known == SelectSeq(sources, Recognised)
       IN  tasks = [k \in 1..Len(known) |-> TaskFor(known[k])]
    /\ Cardinality({k \in 1..Len(log) : log[k].msg = "source not supported yet"})
         = Cardinality({k \in 1..Len(sources) : ~Recognised(sources[k])})
    /\ pc \in {"done", "crashed"} => pc = "done" /\ ti = Len(tasks)

\* the directory instance asks for incremental mode and names no snapshot
IncrementalWithoutSnapshot(inst) ==
  /\ inst.kind = "directories"
  /\ inst.incremental = "True"
  /\ inst.snapshot = NoValue

\* C11: a directory instance with incremental set and no incremental_snapshot
\* has the error logged for it, resolves to no item, has no item extracted
\* (so no archive, no encrypt, no upload), leaves the files as they are, and
\* the run goes on in the loop over instances.
IncrementalNeedsSnapshot ==
  /\ fs \subseteq UNION {items[i].touched : i \in 1..Len(items)}
  /\ \A n \in 1..Len(insts) :
       IncrementalWithoutSnapshot(insts[n])
       => /\ \E k \in 1..Len(log) :
               /\ log[k].inst = n /\ log[k].lvl = "ERROR"
               /\ log[k].msg = "incremental requires incremental_snapshot"
          /\ insts[n].names = <<>>
          /\ \A i \in 1..Len(items) : items[i].inst # n
          /\ n = Len(insts) => pc \in {"instances", "tasks", "done"}

\* C11 witness: after a directory instance skipped for its missing snapshot
\* path, the next instance had its archive made
NextArchiveAfterMissingSnapshot ==
  \E n \in 1..Len(insts) :
    /\ IncrementalWithoutSnapshot(insts[n])
    /\ \E i \in 1..Len(items) :
         items[i].inst = n + 1 /\ HasStep(items[i], "extract", "ok")

\* the passwords the instances configure
ConfiguredPasswords ==
  {secrets[n].password : n \in {m \in 1..Len(secrets) : Truthy(secrets[m].password)}}

\* C12: os.environ never holds a configured password; an invocation of an
\* instance with a password is given that password; an invocation of an
\* instance without one is given what os.environ holds, which is the
\* password of no instance.
PasswordIsolation ==
  /\ environ \notin ConfiguredPasswords
  /\ \A k \in 1..Len(calls) :
       LET own == secrets[calls[k].inst].password
       IN  IF Truthy(own)
           THEN calls[k].env = own
           ELSE calls[k].env = environ /\ calls[k].env \notin ConfiguredPasswords

\* C12 witness: after a tool was invoked for an instance with a password,
\* the dump producer was invoked for a later instance without one and was
\* given no configured password
DumpWithoutPasswordAfterDumpWithPassword ==
  \E k, l \in 1..Len(calls) :
    /\ k < l
    /\ calls[k].inst < calls[l].inst
    /\ Truthy(secrets[calls[k].inst].password)
    /\ ~Truthy(secrets[calls[l].inst].password)
    /\ calls[l].tool = "mysqldump"
    /\ calls[l].env \notin ConfiguredPasswords

\* C13: an item whose extraction succeeded has, when the extraction ends,
\* exactly one file, its artifact; an item whose extraction failed has no
\* file, then and until the end of the run.
ExtractionOneArtifactOrNone ==
  \A i \in 1..Len(items) :
    LET it == items[i]
    IN  /\ it.trace = <<<<"extract", "ok">>>> /\ it.status = "Extracted"
           /\ i = cur /\ pc \in {"compress", "dir_encrypt"}
           => FilesOf(it) = {it.final}
        /\ it.trace[1][2] # "ok" => FilesOf(it) = {}

\* the databases the dump producer was invoked for, for instance n, in order
DumpedFor(n) ==
  LET mine(c) == c.inst = n /\ c.tool = "mysqldump"
      of == SelectSeq(calls, mine)
  IN  [k \in 1..Len(of) |-> of[k].db]

\* the exclusion set in effect for instance n: the configured
\* exclude_databases when one is given, else the built-in list
EffectiveExclusion(n) ==
  IF secrets[n].opt.exclude.some
  THEN Range(secrets[n].opt.exclude.v)
  ELSE {"mysql", "information_schema", "performance_schema", "sys"}

\* the names instance n is to dump: the listed ones that are not empty and
\* not excluded, in listing order
ExpectedFor(n) ==
  LET keep(name) == name # "" /\ name \notin EffectiveExclusion(n)
  IN  SelectSeq(ListingOf(n).stdout, keep)

\* C14: for an instance with all_databases_except_system set whose lister
\* answered, the databases dumped so far are the first of the expected names
\* in order, are all of them once the instance is through, and none of them
\* is in the exclusion set in effect.
DynamicListingResolution ==
  \A n \in 1..ei :
    Truthy(secrets[n].opt.all) /\ ListingOf(n).rc = "ok" =>
      /\ Len(DumpedFor(n)) <= Len(ExpectedFor(n))
      /\ DumpedFor(n) = SubSeq(ExpectedFor(n), 1, Len(DumpedFor(n)))
      /\ Range(DumpedFor(n)) \cap EffectiveExclusion(n) = {}
      /\ n < ei \/ epc \in {"instances", "done"} => DumpedFor(n) = ExpectedFor(n)

\* the error messages that name the failure the item's record shows
FailureMessages(it) ==
  LET last == it.trace[Len(it.trace)]
  IN  CASE last = <<"extract", "fail">>  -> {"dumping", "creating archive"}
        [] last = <<"compress", "fail">> -> {"compressing file", "not supported"}
        [] last = <<"encrypt", "fail">>  -> {"encrypting file", "not supported"}
        [] last = <<"upload", "fail">>   -> {"uploading", "Not supported"}
        [] OTHER -> {"encryption not found", "destination not found"}

\* the item was given up: a stage of it failed or raised, or a key it
\* names is not defined
GivenUp(it) == it.status = "Failed" \/ it.trace[Len(it.trace)][2] = "raised"

\* C15: an item is given up exactly when an error line is logged for it; the
\* line names the failure and comes before every line of a later item; so
\* the failed items can be counted in the log.
FailuresAreLogged ==
  /\ \A i \in 1..Len(items) :
       /\ Logged("ERROR", i) <=> GivenUp(items[i])
       /\ items[i].status = "Failed" /\ items[i].trace[Len(items[i].trace)][2] # "raised" =>
            \E k \in 1..Len(log) :
              /\ log[k].item = i /\ log[k].lvl = "ERROR"
              /\ log[k].msg \in FailureMessages(items[i])
              /\ \A l \in 1..Len(log) : log[l].item > i => k < l
  /\ Cardinality({i \in 1..Len(items) : GivenUp(items[i])})
       = Cardinality({log[k].item : k \in {l \in 1..Len(log) :
                        log[l].lvl = "ERROR" /\ log[l].item > 0}})

\* the instance reached the check of its temp directory without a value for
\* the temp option
ReachedWithoutTemp(n) ==
  /\ insts[n].temp = NoValue
  /\ ~ \E k \in 1..Len(log) :
         log[k].inst = n /\ log[k].msg = "invalid source path"

\* C16: an instance without a temp value is skipped: "missing temp path" is
\* logged for it, no directory is created, and no item of it is extracted
\* or leaves a file.
MissingTempIsSkipped ==
  \A n \in 1..Len(insts) :
    ReachedWithoutTemp(n) =>
      /\ \E k \in 1..Len(log) :
           /\ log[k].inst = n /\ log[k].lvl = "ERROR"
           /\ log[k].msg = "missing temp path"
      /\ ~ insts[n].raised
      /\ insts[n].names = <<>>
      /\ \A i \in 1..Len(items) : items[i].inst # n
      /\ PathOf("") \notin dirs

\* the path is the output of gpg: its last suffix is .gpg
IsEncrypted(p) == p # NoPath /\ Len(p[4]) > 0 /\ p[4][Len(p[4])] = "gpg"

\* the file the upload stage is about to be handed
HandedToUpload == IF pc = "upload" THEN dump_file ELSE archive_path

\* C18: when the instance of an item names an encryption profile, the file
\* handed to the upload stage of the item is the output of a successful
\* encrypt of that item with a defined gpg profile; an item whose profile is
\* undefined or unsupported, or whose gpg failed, never reaches upload.
EncryptionNeverBypassed ==
  /\ \A i \in 1..Len(items) :
       LET it == items[i]
       IN  Invoked(it, "upload") =>
             /\ it.encryption # Unread
             /\ Truthy(it.encryption) =>
                  /\ it.encryption \in DOMAIN encryptions
                  /\ encryptions[it.encryption].method = "gpg"
                  /\ HasStep(it, "encrypt", "ok")
                  /\ IsEncrypted(it.final)
  /\ pc \in {"upload", "dir_upload"} =>
       /\ items[cur].encryption # Unread
       /\ Truthy(items[cur].encryption) =>
            /\ HasStep(items[cur], "encrypt", "ok")
            /\ IsEncrypted(HandedToUpload)
            /\ HandedToUpload = items[cur].final
  /\ \A i \in 1..Len(items) :
       /\ Truthy(items[i].encryption)
       /\ items[i].encryption # Unread
       /\ ~HasStep(items[i], "encrypt", "ok")
       => /\ ~Invoked(items[i], "upload")
          /\ ~(i = cur /\ pc \in {"upload", "dir_upload"})

\* Witness for C18: in one instance with an encryption profile, gpg failed
\* for an item, which was not uploaded, and a later item was encrypted and
\* uploaded.
EncryptedUploadAfterFailedEncrypt ==
  \E i, j \in 1..Len(items) :
    /\ i < j /\ items[i].inst = items[j].inst
    /\ HasStep(items[i], "encrypt", "fail") /\ ~Invoked(items[i], "upload")
    /\ Truthy(items[j].encryption)
    /\ HasStep(items[j], "upload", "ok")
    /\ items[j].final \in store

\* the items of instance n, in the order they were extracted, and their names
ItemsOf(n) == SelectSeq(items, LAMBDA it : it.inst = n)
NamesOf(n) == [k \in 1..Len(ItemsOf(n)) |-> ItemsOf(n)[k].base]

TerminalStates == {"Uploaded", "Skipped", "Failed"}

\* the run is over: BackupRunner.run returned, or an exception ended it
RunOver == pc \in {"done", "crashed"}

\* C17: the pass is single and forward: the items extracted for an instance
\* are its resolved names in order, each once, and instances are visited in
\* the order of their source types; and when the run is over every resolved
\* item of every instance is in a terminal state.
SinglePassEndsTerminal ==
  /\ \A n \in 1..Len(insts) :
       /\ Len(ItemsOf(n)) <= Len(insts[n].names)
       /\ NamesOf(n) = SubSeq(insts[n].names, 1, Len(ItemsOf(n)))
  /\ \A i \in 1..Len(items) :
       Cardinality({k \in 1..Len(items[i].trace) :
                      items[i].trace[k][1] = "extract"}) = 1
  /\ \A n, m \in 1..Len(insts) : n < m => insts[n].task <= insts[m].task
  /\ \A i, j \in 1..Len(items) : i < j => items[i].inst <= items[j].inst
  /\ RunOver =>
       \A n \in 1..Len(insts) :
         /\ NamesOf(n) = insts[n].names
         /\ \A k \in 1..Len(ItemsOf(n)) : ItemsOf(n)[k].status \in TerminalStates

====
